---- MODULE Spec2Model ----
(***************************************************************************)
(* A model of scripts/build.py of news-feeds: the bundle-definition parser *)
(* (parse_bundles_md), the query compiler (QuerySpec.to_google_query), the *)
(* identity function (stable_id_for_item), the merge (merge_item) and the  *)
(* run (main): load the catalog, fetch, merge, retain, write.              *)
(*                                                                         *)
(* Python strings are sequences of one-character strings, so that strip,   *)
(* startswith, join and the regular expressions of the parser are computed *)
(* as the code computes them.  None is the one-element sequence NoneVal.   *)
(***************************************************************************)
EXTENDS Naturals, Integers, Sequences, FiniteSets, TLC

VARIABLES
    text,        \* parse_bundles_md: the lines of the document read so far
    ps,          \* parse_bundles_md: the locals of the line loop
    ppc,         \* parse_bundles_md: "lines" | "parsed"
    parsed,      \* parse_bundles_md: the list it returns
    compiled,    \* to_google_query of each returned QuerySpec, in order
    bundles_md,  \* config/bundles.md: [exists, lines]
    out_json,    \* docs/data.json: [state, items, meta]
    now,         \* the clock, epoch seconds
    pc,          \* main's position
    specs,       \* main: the parsed QuerySpecs
    by_id,       \* main: the store, a dict in insertion order: <<[key, item]>>
    si,          \* main: index of the spec being fetched
    ei,          \* main: index of the next entry of that spec's feed
    feed,        \* what the feed fetcher returns per spec: [ok, entries]
    replay,      \* TRUE when this run sees the reality of the previous run
    io,          \* what this run has done outside: [net, read, wrote]
    runs,        \* runs started
    sightings,   \* feed entries drawn so far, over all runs
    events,      \* changes made from outside between runs
    start_json,  \* docs/data.json as it was when this run started
    cands,       \* the candidates this run has folded into the store, in order
    merged,      \* the last call of merge_item: <<[existing, incoming, out]>>
    prev,        \* <<items>> written by the previous run when this run replays it
    item,        \* stable_id_for_item: the item it is given
    item_id,     \* stable_id_for_item: what it returned for item
    changes      \* how often the fields of item other than canonical_url changed

parserVars == <<text, ps, ppc, parsed, compiled>>
runVars == <<bundles_md, out_json, now, pc, specs, by_id, si, ei, feed, replay, io,
             runs, sightings, events, start_json, cands, merged, prev>>
idVars == <<item, item_id, changes>>
vars == <<text, ps, ppc, parsed, compiled, bundles_md, out_json, now, pc, specs,
          by_id, si, ei, feed, replay, io, runs, sightings, events, start_json,
          cands, merged, prev, item, item_id, changes>>

(***************************************************************************)
(* Strings                                                                 *)
(***************************************************************************)
NoneVal == <<"None">>
\* A JSON number other than 0 where the program expects a string.
NumberVal == <<"Number">>

\* Python truthiness of an Optional[str]: None and "" are falsy.
Falsy(x) == x = NoneVal \/ x = <<>>

\* x or y
Or(x, y) == IF Falsy(x) THEN y ELSE x

isspace(c) == c = " "

RECURSIVE lstrip(_)
lstrip(s) == IF s = <<>> THEN <<>>
             ELSE IF isspace(Head(s)) THEN lstrip(Tail(s)) ELSE s

RECURSIVE rstrip(_)
rstrip(s) == IF s = <<>> THEN <<>>
             ELSE IF isspace(s[Len(s)]) THEN rstrip(SubSeq(s, 1, Len(s) - 1)) ELSE s

strip(s) == lstrip(rstrip(s))

startswith(s, p) == Len(s) >= Len(p) /\ SubSeq(s, 1, Len(p)) = p

\* sep.join(parts)
RECURSIVE join(_, _)
join(sep, parts) == IF parts = <<>> THEN <<>>
                    ELSE IF Len(parts) = 1 THEN parts[1]
                    ELSE parts[1] \o sep \o join(sep, Tail(parts))

\* safe_str: (x or "").strip()
safe_str(x) == strip(Or(x, <<>>))

(***************************************************************************)
(* _clean_exclusion and QuerySpec                                          *)
(***************************************************************************)
_clean_exclusion(x0) ==
    LET x == strip(Or(x0, <<>>))
    IN IF x = <<>> THEN <<>>
       ELSE IF startswith(x, <<"-">>) THEN strip(Tail(x)) ELSE x

QuerySpec(b, inc, bex, qex) ==
    [bundle |-> b, include |-> inc, bundle_exclude |-> bex, query_exclude |-> qex]

\* One exclusion of to_google_query's loop: the part it appends, or nothing.
negated_part_twice(raw) ==
    LET ex == strip(Or(raw, <<>>))
    IN IF ex = <<>> THEN <<>> ELSE << <<"-">> \o ex >>

negated_part(raw) ==
    LET ex == strip(Or(raw, <<>>))
    IN IF ex = <<>> THEN <<>>
       ELSE IF startswith(ex, <<"-">>) THEN << ex >> ELSE << <<"-">> \o ex >>

RECURSIVE negated_parts(_)
negated_parts(raws) ==
    IF raws = <<>> THEN <<>>
    ELSE negated_part(Head(raws)) \o negated_parts(Tail(raws))

to_google_query(self) ==
    LET parts == << strip(self.include) >>
                 \o negated_parts(self.bundle_exclude \o self.query_exclude)
    IN strip(join(<<" ">>, parts))

(***************************************************************************)
(* parse_bundles_md                                                        *)
(***************************************************************************)
\* re.match(r"^\s*<marker>\s+(.*\S)\s*$", ln): <<group 1>>, or <<>> for no match.
re_match(marker, ln) ==
    LET t == lstrip(ln)
        n == Len(marker)
        rest == SubSeq(t, n + 1, Len(t))
    IN IF startswith(t, marker) /\ Len(t) > n /\ isspace(t[n + 1])
          /\ strip(rest) # <<>>
       THEN << strip(rest) >>
       ELSE <<>>

\* The locals of parse_bundles_md before its loop.  current is a list of at
\* most one QuerySpec (Optional[QuerySpec]).
parse_locals ==
    [bundle |-> NoneVal, bundle_excludes |-> <<>>, current |-> <<>>,
     seen_any_query_in_bundle |-> FALSE, out |-> <<>>]

flush_current_lost(st) == [st EXCEPT !.current = <<>>]

flush_current(st) ==
    IF st.current # <<>>
    THEN [st EXCEPT !.out = Append(st.out, st.current[1]), !.current = <<>>]
    ELSE st

\* The bundle_exclude given to a new QuerySpec.
clean_nonempty(x) == _clean_exclusion(x) # <<>>
carried_excludes(st) ==
    LET kept == SelectSeq(st.bundle_excludes, clean_nonempty)
    IN [i \in 1..Len(kept) |-> _clean_exclusion(kept[i])]

\* A "-" line: a query-specific exclusion when a "+" query is open, else a
\* bundle-wide one.
exclusion_line_bundle_only(st, val) ==
    [st EXCEPT !.bundle_excludes = Append(@, _clean_exclusion(val))]

exclusion_line(st, val) ==
    IF st.current # <<>>
    THEN [st EXCEPT !.current[1].query_exclude = Append(@, _clean_exclusion(val))]
    ELSE [st EXCEPT !.bundle_excludes = Append(@, _clean_exclusion(val))]

\* One iteration of the line loop.
parse_line(st, raw) ==
    LET ln == rstrip(raw)
        mH == re_match(<<"#", "#">>, ln)
        mP == re_match(<<"+">>, ln)
        mS == re_match(<<"*">>, ln)
        mM == re_match(<<"-">>, ln)
    IN IF strip(ln) = <<>> THEN st
       ELSE IF mH # <<>>
       THEN [flush_current(st) EXCEPT !.bundle = strip(mH[1]),
                                      !.bundle_excludes = <<>>,
                                      !.seen_any_query_in_bundle = FALSE]
       ELSE IF Falsy(st.bundle) THEN st
       ELSE IF mP # <<>>
       THEN [flush_current(st) EXCEPT
                !.seen_any_query_in_bundle = TRUE,
                !.current = << QuerySpec(st.bundle, strip(mP[1]),
                                         carried_excludes(st), <<>>) >>]
       ELSE IF mS # <<>>
       THEN LET f == flush_current(st)
            IN [f EXCEPT !.seen_any_query_in_bundle = TRUE,
                         !.out = Append(f.out, QuerySpec(st.bundle, strip(mS[1]),
                                                         carried_excludes(st), <<>>))]
       ELSE IF mM # <<>> THEN exclusion_line(st, strip(mM[1]))
       ELSE st

\* After the loop: flush, then drop empty includes and empty exclusions.
nonblank(x) == strip(Or(x, <<>>)) # <<>>
has_include(s) == strip(Or(s.include, <<>>)) # <<>>
normalized(s) ==
    [s EXCEPT !.bundle_exclude = SelectSeq(@, nonblank),
              !.query_exclude = SelectSeq(@, nonblank)]

cleaned(st) ==
    LET kept == SelectSeq(flush_current(st).out, has_include)
    IN [i \in 1..Len(kept) |-> normalized(kept[i])]

RECURSIVE parse_loop(_, _)
parse_loop(st, lines) ==
    IF lines = <<>> THEN st ELSE parse_loop(parse_line(st, Head(lines)), Tail(lines))

parse_bundles_md(lines) == cleaned(parse_loop(parse_locals, lines))

(***************************************************************************)
(* The lines the documents are drawn from                                  *)
(***************************************************************************)
MaxLines == 5

L_header == <<"#", "#", " ", "T", "e", "c", "h">>
L_header2 == <<"#", "#", " ", "U">>
L_bex == <<"-", " ", "r", "u", "m", "o", "r">>
L_plus == <<"+", " ", "a", "p", "p", "l", "e", " ", "v", "i", "s", "i", "o", "n", " ", "p", "r", "o">>
L_qex == <<"-", " ", "l", "e", "a", "k">>
L_star == <<"*", " ", "a", " ", " ", "b">>
L_dash == <<"-", " ", "-", "-", "x">>
L_empty == <<"-", " ", "-">>
L_blank == <<" ">>

Lines == {L_header, L_header2, L_bex, L_plus, L_qex, L_star, L_dash, L_empty, L_blank}

TechDoc == <<L_header, L_bex, L_plus, L_qex>>

(***************************************************************************)
(* Items: Python dicts.  A dict is a function whose domain is the keys it  *)
(* holds; published_ts is an integer, every other value a string or None.  *)
(***************************************************************************)
RETENTION_DAYS == 180
MAX_ITEMS_PER_QUERY == 50

\* it.get(k)
get(it, k) == IF k \in DOMAIN it THEN it[k] ELSE NoneVal

\* it[k] = v
set(it, k, v) == [x \in DOMAIN it \cup {k} |-> IF x = k THEN v ELSE it[x]]

\* int(it.get("published_ts") or 0)
ts_of(it) == IF "published_ts" \in DOMAIN it THEN it["published_ts"] ELSE 0

\* str(n) of a non-negative integer
Digits == <<"0", "1", "2", "3", "4", "5", "6", "7", "8", "9">>
RECURSIVE str(_)
str(n) == IF n < 10 THEN << Digits[n + 1] >>
          ELSE str(n \div 10) \o << Digits[(n % 10) + 1] >>

\* s.lower(), on the letters the feeds use
lower_char(c) ==
    CASE c = "A" -> "a" [] c = "B" -> "b" [] c = "S" -> "s" [] OTHER -> c
lower(s) == [i \in 1..Len(s) |-> lower_char(s[i])]

\* hashlib.sha256(base)[:24]: a digest, taken to be free of collisions; the
\* digest of a base is the base marked as a digest.
sha256_24(base) == <<"#">> \o base

stable_id_for_item_url_first(it) ==
    LET canon == safe_str(get(it, "canonical_url"))
        url == safe_str(get(it, "url"))
        guid == safe_str(get(it, "guid"))
        title == lower(safe_str(get(it, "title")))
        source == lower(safe_str(get(it, "source")))
        sep == <<":", ":">>
        base == IF url # <<>> THEN <<"u", "r", "l">> \o sep \o url
                ELSE IF canon # <<>> THEN <<"c", "a", "n", "o", "n">> \o sep \o canon
                ELSE IF guid # <<>> THEN <<"g", "u", "i", "d">> \o sep \o guid
                ELSE <<"t", "s">> \o sep \o title \o sep \o source \o sep \o str(ts_of(it))
    IN sha256_24(base)

stable_id_for_item(it) ==
    LET canon == safe_str(get(it, "canonical_url"))
        url == safe_str(get(it, "url"))
        guid == safe_str(get(it, "guid"))
        title == lower(safe_str(get(it, "title")))
        source == lower(safe_str(get(it, "source")))
        sep == <<":", ":">>
        base == IF canon # <<>> THEN <<"c", "a", "n", "o", "n">> \o sep \o canon
                ELSE IF url # <<>> THEN <<"u", "r", "l">> \o sep \o url
                ELSE IF guid # <<>> THEN <<"g", "u", "i", "d">> \o sep \o guid
                ELSE <<"t", "s">> \o sep \o title \o sep \o source \o sep \o str(ts_of(it))
    IN sha256_24(base)

(***************************************************************************)
(* merge_item                                                              *)
(***************************************************************************)
MERGE_KEYS == <<"title", "source", "bundle", "query", "url", "canonical_url", "guid">>

\* One iteration of the loop over the descriptive fields.
fill_if_blank_overwrite(out, incoming, k) ==
    set(out, k, Or(get(incoming, k), get(out, k)))

fill_if_blank(out, incoming, k) ==
    IF safe_str(get(out, k)) = <<>>
    THEN set(out, k, Or(get(incoming, k), get(out, k)))
    ELSE out

RECURSIVE fill_fields(_, _, _)
fill_fields(out, incoming, keys) ==
    IF keys = <<>> THEN out
    ELSE fill_fields(fill_if_blank(out, incoming, Head(keys)), incoming, Tail(keys))

\* The published_ts of the merged record.
merged_ts_added(ex_ts, in_ts) == ex_ts + in_ts
merged_ts_latest(ex_ts, in_ts) == IF in_ts # 0 THEN in_ts ELSE ex_ts
merged_ts(ex_ts, in_ts) == IF ex_ts = 0 /\ in_ts # 0 THEN in_ts ELSE ex_ts

merge_item(existing, incoming) ==
    LET out1 == set(existing, "id", Or(get(existing, "id"), get(incoming, "id")))
        ex_ts == ts_of(out1)
        in_ts == ts_of(incoming)
        out2 == IF merged_ts(ex_ts, in_ts) # ex_ts
                THEN set(out1, "published_ts", merged_ts(ex_ts, in_ts))
                ELSE out1
        out3 == fill_fields(out2, incoming, MERGE_KEYS)
    IN IF safe_str(get(incoming, "canonical_url")) # <<>>
          /\ safe_str(get(existing, "canonical_url")) = <<>>
       THEN set(out3, "canonical_url", incoming["canonical_url"])
       ELSE out3

(***************************************************************************)
(* The store: by_id, a dict in insertion order                             *)
(***************************************************************************)
has_key(d, key) == \E i \in 1..Len(d) : d[i].key = key
index_of(d, key) == CHOOSE i \in 1..Len(d) : d[i].key = key
lookup(d, key) == d[index_of(d, key)].item

\* d[key] = item: in place when the key is held, at the end when it is not.
dict_set(d, key, v) ==
    IF has_key(d, key)
    THEN [d EXCEPT ![index_of(d, key)] = [key |-> key, item |-> v]]
    ELSE Append(d, [key |-> key, item |-> v])

values(d) == [i \in 1..Len(d) |-> d[i].item]

\* main, the end of the entry loop: merge into the held item or insert.
upsert(d, incoming) ==
    LET iid == incoming["id"]
    IN IF has_key(d, iid)
       THEN dict_set(d, iid, merge_item(lookup(d, iid), incoming))
       ELSE dict_set(d, iid, incoming)

RECURSIVE fold(_, _)
fold(d, candidates) ==
    IF candidates = <<>> THEN d
    ELSE fold(upsert(d, Head(candidates)), Tail(candidates))

\* The same with the id computed anew for every loaded item.
load_one_recompute(d, it) ==
    dict_set(d, stable_id_for_item(it), set(it, "id", stable_id_for_item(it)))

\* main, the loop over the loaded items (every loaded item is a dict).
load_one(d, it) ==
    LET it_id == safe_str(get(it, "id"))
    IN IF it_id = <<>>
       THEN dict_set(d, stable_id_for_item(it), set(it, "id", stable_id_for_item(it)))
       ELSE dict_set(d, it_id, it)

RECURSIVE load_all(_, _)
load_all(d, its) ==
    IF its = <<>> THEN d ELSE load_all(load_one(d, Head(its)), Tail(its))

\* load_existing_items: a missing or unreadable file is an empty list.
load_existing_items(file) == IF file.state = "ok" THEN file.items ELSE <<>>

\* safe_str(it.get("id")) on the loaded items: (x or "").strip() raises on a
\* number that is not 0, which has no strip.
load_raises(its) == \E i \in 1..Len(its) : get(its[i], "id") = NumberVal

(***************************************************************************)
(* Retention and order                                                     *)
(***************************************************************************)
cutoff_at(now_ts) == now_ts - (RETENTION_DAYS * 86400)

retained_strict(it, cutoff) == ts_of(it) # 0 /\ ts_of(it) > cutoff
retained(it, cutoff) == ts_of(it) # 0 /\ ts_of(it) >= cutoff

RECURSIVE retain(_, _)
retain(its, cutoff) ==
    IF its = <<>> THEN <<>>
    ELSE IF retained(Head(its), cutoff)
         THEN <<Head(its)>> \o retain(Tail(its), cutoff)
         ELSE retain(Tail(its), cutoff)

\* items.sort(key=published_ts, reverse=True): stable, equal keys keep their order.
RECURSIVE insert_desc_ahead(_, _)
insert_desc_ahead(sorted, it) ==
    IF sorted = <<>> THEN <<it>>
    ELSE IF ts_of(Head(sorted)) > ts_of(it)
         THEN <<Head(sorted)>> \o insert_desc_ahead(Tail(sorted), it)
         ELSE <<it>> \o sorted

RECURSIVE insert_desc(_, _)
insert_desc(sorted, it) ==
    IF sorted = <<>> THEN <<it>>
    ELSE IF ts_of(Head(sorted)) >= ts_of(it)
         THEN <<Head(sorted)>> \o insert_desc(Tail(sorted), it)
         ELSE <<it>> \o sorted

RECURSIVE sort_desc(_)
sort_desc(its) ==
    IF its = <<>> THEN <<>>
    ELSE insert_desc(sort_desc(SubSeq(its, 1, Len(its) - 1)), its[Len(its)])

(***************************************************************************)
(* The catalog's meta                                                      *)
(***************************************************************************)
bundles_of(ss) == {ss[i].bundle : i \in 1..Len(ss)}

RECURSIVE dedup_append(_, _)
dedup_append(acc, xs) ==
    IF xs = <<>> THEN acc
    ELSE LET ex == _clean_exclusion(Head(xs))
         IN IF ex # <<>> /\ \A i \in 1..Len(acc) : acc[i] # ex
            THEN dedup_append(Append(acc, ex), Tail(xs))
            ELSE dedup_append(acc, Tail(xs))

RECURSIVE bundle_exclusions_of(_, _)
bundle_exclusions_of(ss, b) ==
    IF ss = <<>> THEN <<>>
    ELSE LET rest == bundle_exclusions_of(SubSeq(ss, 1, Len(ss) - 1), b)
             s == ss[Len(ss)]
         IN IF s.bundle = b THEN dedup_append(rest, s.bundle_exclude) ELSE rest

\* query_exclusions[b][include]: the last spec with that include wins.
query_exclusions_of(ss, b) ==
    LET kept(s) == SelectSeq(s.query_exclude, clean_nonempty)
        qex(s) == [i \in 1..Len(kept(s)) |-> _clean_exclusion(kept(s)[i])]
        mine == {i \in 1..Len(ss) : ss[i].bundle = b /\ qex(ss[i]) # <<>>}
        incs == {ss[i].include : i \in mine}
        last(inc) == CHOOSE i \in mine :
                        /\ ss[i].include = inc
                        /\ \A j \in mine : ss[j].include = inc => j <= i
    IN [inc \in incs |-> qex(ss[last(inc)])]

meta_of(ss, its) ==
    [retention_days |-> RETENTION_DAYS,
     bundles_count |-> Cardinality(bundles_of(ss)),
     queries_count |-> Len(ss),
     items_count |-> Len(its),
     bundle_exclusions |-> [b \in bundles_of(ss) |-> bundle_exclusions_of(ss, b)],
     query_exclusions |-> [b \in bundles_of(ss) |-> query_exclusions_of(ss, b)]]

(***************************************************************************)
(* The feed entries and the URLs                                           *)
(***************************************************************************)
\* The clock at the first run and after it advanced.
Now0 == 2 * RETENTION_DAYS * 86400
Now1 == Now0 + 1
Cut0 == Now0 - (RETENTION_DAYS * 86400)

g1 == <<"g", "1">>   \* an aggregator redirect URL, resolved by a GET
g2 == <<"g", "2">>   \* an aggregator redirect URL carrying ?url=<publisher>
pub == <<"p">>       \* the publisher URL of the article behind g1 and g2

\* extract_publisher_url_from_param
extract_publisher_url_from_param(url) == IF url = g2 THEN pub ELSE <<>>

\* "news.google.com" in urlparse(u).netloc.lower()
on_aggregator(u) == u \in {g1, g2}

\* What requests.get does for a URL: it ends at the publisher, it ends at
\* the aggregator itself, or it raises.
GetOutcomes == {"publisher", "aggregator", "raises"}

resolve_to_publisher(url0, outcome) ==
    LET url == safe_str(url0)
        direct == extract_publisher_url_from_param(url)
        final == IF outcome = "publisher" THEN pub ELSE url
    IN IF url = <<>> THEN <<>>
       ELSE IF direct # <<>> THEN direct
       ELSE IF outcome # "raises" /\ final # <<>> /\ ~on_aggregator(final) THEN final
       ELSE <<>>

\* Whether resolve_to_publisher(url) issues the GET.
needs_get(url0) ==
    safe_str(url0) # <<>> /\ extract_publisher_url_from_param(safe_str(url0)) = <<>>

\* A feed entry: the attributes main reads.  A parsed time is <<>> (absent)
\* or <<t>>, t the value of time.mktime of it.
Entry(title, link, guid, id, source, published, updated) ==
    [title |-> title, link |-> link, guid |-> guid, id |-> id, source |-> source,
     published_parsed |-> published, updated_parsed |-> updated]

\* One article seen three ways, and an entry with nothing to identify it.
E_first == Entry(<<"A">>, g1, NoneVal, NoneVal, <<"S", " ">>, <<Cut0>>, <<>>)
E_again == Entry(<<"B">>, g2, NoneVal, <<"k">>, NoneVal, <<>>, <<Cut0 + 1>>)
E_undated == Entry(NoneVal, g2, NoneVal, NoneVal, NoneVal, <<>>, <<>>)
E_blank == Entry(NoneVal, <<" ">>, NoneVal, NoneVal, NoneVal, <<>>, <<>>)

Entries == {E_first, E_again, E_undated, E_blank}

\* A sighting: an entry and what the GET for its link does (when one is made).
Sightings ==
    {[e |-> e, get |-> o] : e \in {x \in Entries : needs_get(x.link)}, o \in GetOutcomes}
    \cup {[e |-> e, get |-> "none"] : e \in {x \in Entries : ~needs_get(x.link)}}

to_ts(entry) ==
    IF entry.published_parsed # <<>> THEN entry.published_parsed[1]
    ELSE IF entry.updated_parsed # <<>> THEN entry.updated_parsed[1]
    ELSE 0

\* main, the body of the entry loop up to the candidate: <<incoming>>, or <<>>
\* when the entry is skipped.
candidate_of(spec, s) ==
    LET e == s.e
        title == safe_str(e.title)
        url == safe_str(e.link)
        guid == Or(safe_str(e.guid), safe_str(e.id))
        source == IF ~Falsy(e.source) THEN safe_str(e.source) ELSE <<>>
        canonical_url == IF url # <<>> THEN resolve_to_publisher(url, s.get) ELSE <<>>
        incoming == [bundle |-> spec.bundle, query |-> spec.include, title |-> title,
                     source |-> source, url |-> url, canonical_url |-> canonical_url,
                     guid |-> guid, published_ts |-> to_ts(e)]
    IN IF title = <<>> /\ url = <<>> /\ guid = <<>> THEN <<>>
       ELSE << set(incoming, "id", stable_id_for_item(incoming)) >>

\* The bundle definitions a run may find.
NoQueryDoc == <<L_blank, L_header, L_bex>>
TwoDoc == <<L_header, L_bex, L_plus, L_qex, L_header2, L_star>>
Configs == {[exists |-> FALSE, lines |-> <<>>],
            [exists |-> TRUE, lines |-> NoQueryDoc],
            [exists |-> TRUE, lines |-> TwoDoc]}

(***************************************************************************)
(* The parser and the compiler as a state machine: the document is read a  *)
(* line at a time, then the result is compiled query by query.             *)
(***************************************************************************)
\* The bounds of the run.
MaxRuns == 3
MaxSightings == 2
MaxEvents == 1

NoIO == [net |-> FALSE, read |-> FALSE, wrote |-> FALSE]
NoFile == [state |-> "missing", items |-> <<>>, meta |-> meta_of(<<>>, <<>>)]

\* Before the first run: no catalog has been written yet.
RunIdle ==
    /\ out_json = NoFile
    /\ now = Now0
    /\ pc = "main"
    /\ specs = <<>>
    /\ by_id = <<>>
    /\ si = 0
    /\ ei = 0
    /\ feed = <<>>
    /\ replay = FALSE
    /\ io = NoIO
    /\ runs = 1
    /\ sightings = 0
    /\ events = 0
    /\ start_json = NoFile
    /\ cands = <<>>
    /\ merged = <<>>
    /\ prev = <<>>

ParserIdle ==
    /\ text = <<>>
    /\ ps = parse_locals
    /\ ppc = "lines"
    /\ parsed = <<>>
    /\ compiled = <<>>

IdIdle ==
    /\ item = [id |-> <<>>]
    /\ item_id = NoneVal
    /\ changes = 0

ParserInit ==
    /\ bundles_md = [exists |-> FALSE, lines |-> <<>>]
    /\ RunIdle
    /\ IdIdle
    /\ text = <<>>
    /\ ps = parse_locals
    /\ ppc = "lines"
    /\ parsed = <<>>
    /\ compiled = <<>>

ReadLine ==
    /\ ppc = "lines"
    /\ Len(text) < MaxLines
    /\ \E ln \in Lines :
          /\ text' = Append(text, ln)
          /\ ps' = parse_line(ps, ln)
    /\ UNCHANGED <<ppc, parsed, compiled>>
    /\ UNCHANGED <<runVars, idVars>>

EndOfText ==
    /\ ppc = "lines"
    /\ parsed' = cleaned(ps)
    /\ ppc' = "parsed"
    /\ UNCHANGED <<text, ps, compiled>>
    /\ UNCHANGED <<runVars, idVars>>

Compile ==
    /\ ppc = "parsed"
    /\ Len(compiled) < Len(parsed)
    /\ compiled' = Append(compiled, to_google_query(parsed[Len(compiled) + 1]))
    /\ UNCHANGED <<text, ps, ppc, parsed>>
    /\ UNCHANGED <<runVars, idVars>>

ParserNext == ReadLine \/ EndOfText \/ Compile

ParserSpec == ParserInit /\ [][ParserNext]_vars

(***************************************************************************)
(* stable_id_for_item on its own: an item is drawn, its id computed, and   *)
(* the fields other than canonical_url are then changed one at a time.     *)
(***************************************************************************)
MaxChanges == 2

IdValues(k) ==
    CASE k = "canonical_url" -> {<<>>, pub, <<" ">>}
      [] k = "url" -> {<<>>, g1, pub}
      [] k = "guid" -> {<<>>, <<"k">>}
      [] k = "title" -> {NoneVal, <<"A">>}
      [] k = "source" -> {<<>>, <<"S">>}
      [] k = "published_ts" -> {0, Cut0}

IdKeys == {"canonical_url", "url", "guid", "title", "source", "published_ts"}

IdInit ==
    /\ bundles_md = [exists |-> FALSE, lines |-> <<>>]
    /\ RunIdle
    /\ ParserIdle
    /\ item \in [canonical_url : IdValues("canonical_url"), url : IdValues("url"),
                 guid : IdValues("guid"), title : IdValues("title"),
                 source : IdValues("source"), published_ts : IdValues("published_ts")]
    /\ item_id = NoneVal
    /\ changes = 0

ComputeId ==
    /\ item_id = NoneVal
    /\ item_id' = stable_id_for_item(item)
    /\ UNCHANGED <<item, changes>>
    /\ UNCHANGED <<runVars, parserVars>>

ChangeField ==
    /\ item_id # NoneVal
    /\ changes < MaxChanges
    /\ \E k \in IdKeys \ {"canonical_url"} :
          \E v \in IdValues(k) \ {item[k]} :
             /\ item' = set(item, k, v)
             /\ item_id' = stable_id_for_item(item')
    /\ changes' = changes + 1
    /\ UNCHANGED <<runVars, parserVars>>

IdNext == ComputeId \/ ChangeField

IdSpec == IdInit /\ [][IdNext]_vars

(***************************************************************************)
(* merge_item as a function of any two records: item is existing, cands    *)
(* holds incoming, merged what the call returned.                          *)
(***************************************************************************)
EnrichKeys == {"blurb", "image_url", "pdf_path"}

\* A key a record may lack.
Absent == <<"absent">>
WithOpt(it, k, v) == IF v = Absent THEN it ELSE set(it, k, v)

MergeRecords ==
    {WithOpt(WithOpt(WithOpt(WithOpt([id |-> <<"#", "a">>], "title", t),
                             "blurb", b), "image_url", i), "pdf_path", f) :
        t \in {<<>>, <<"A">>}, b \in {Absent, <<>>, <<"b">>},
        i \in {Absent, <<"i">>}, f \in {Absent, NoneVal, <<"f">>}}

MergeInit ==
    /\ bundles_md = [exists |-> FALSE, lines |-> <<>>]
    /\ ParserIdle
    /\ out_json = NoFile
    /\ now = Now0
    /\ pc = "main"
    /\ specs = <<>>
    /\ by_id = <<>>
    /\ si = 0
    /\ ei = 0
    /\ feed = <<>>
    /\ replay = FALSE
    /\ io = NoIO
    /\ runs = 1
    /\ sightings = 0
    /\ events = 0
    /\ start_json = NoFile
    /\ prev = <<>>
    /\ item \in MergeRecords
    /\ item_id = NoneVal
    /\ changes = 0
    /\ \E incoming \in MergeRecords : cands = << incoming >>
    /\ merged = <<>>

MergeCall ==
    /\ merged = <<>>
    /\ merged' = << [existing |-> item, incoming |-> cands[1],
                     out |-> merge_item(item, cands[1])] >>
    /\ UNCHANGED <<bundles_md, out_json, now, pc, specs, by_id, si, ei, feed, replay,
                   io, runs, sightings, events, start_json, cands, prev>>
    /\ UNCHANGED <<parserVars, idVars>>

MergeNext == MergeCall

MergeSpec == MergeInit /\ [][MergeNext]_vars

(***************************************************************************)
(* main as a state machine.  Between two runs the world may change: the    *)
(* clock advances, bundles.md is edited, data.json is damaged.  A run that *)
(* replays sees the feeds and the GET outcomes of the run before it.       *)
(***************************************************************************)
Init ==
    /\ bundles_md \in Configs
    /\ RunIdle
    /\ ParserIdle
    /\ IdIdle

\* main: bundles.md must exist and hold a query, or the run exits.
Configure ==
    /\ pc = "main"
    /\ specs' = IF bundles_md.exists THEN parse_bundles_md(bundles_md.lines) ELSE <<>>
    /\ pc' = IF specs' = <<>> THEN "exit_config" ELSE "load"
    /\ UNCHANGED <<bundles_md, out_json, now, by_id, si, ei, feed, replay, io, runs,
                   sightings, events, start_json, cands, merged, prev>>
    /\ UNCHANGED <<parserVars, idVars>>

\* The same with the catalog read before the configuration is looked at.
LoadStore_any_pc ==
    /\ pc \in {"main", "load"}
    /\ by_id' = load_all(<<>>, load_existing_items(out_json))
    /\ io' = [io EXCEPT !.read = TRUE]
    /\ IF pc = "main"
       THEN UNCHANGED <<pc, si>>
       ELSE pc' = "fetch" /\ si' = 1
    /\ io.read = FALSE
    /\ UNCHANGED <<bundles_md, out_json, now, specs, ei, feed, replay, runs,
                   sightings, events, start_json, cands, merged, prev>>
    /\ UNCHANGED <<parserVars, idVars>>

\* main: load_existing_items and the loop that keys the loaded items.  The
\* loop ends the run in an AttributeError at an item whose id is a number.
LoadStore ==
    /\ pc = "load"
    /\ io' = [io EXCEPT !.read = TRUE]
    /\ IF load_raises(load_existing_items(out_json))
       THEN pc' = "raised" /\ UNCHANGED <<by_id, si>>
       ELSE /\ by_id' = load_all(<<>>, load_existing_items(out_json))
            /\ pc' = "fetch"
            /\ si' = 1
    /\ UNCHANGED <<bundles_md, out_json, now, specs, ei, feed, replay, runs,
                   sightings, events, start_json, cands, merged, prev>>
    /\ UNCHANGED <<parserVars, idVars>>

\* main: feedparser.parse of the spec's query.  A fetch that fails yields a
\* feed without entries.
FetchFeed ==
    /\ pc = "fetch"
    /\ si <= Len(specs)
    /\ io' = [io EXCEPT !.net = TRUE]
    /\ IF replay
       THEN UNCHANGED feed
       ELSE \E ok \in BOOLEAN : feed' = Append(feed, [ok |-> ok, entries |-> <<>>])
    /\ pc' = "entries"
    /\ ei' = 1
    /\ UNCHANGED <<bundles_md, out_json, now, specs, by_id, si, replay, runs,
                   sightings, events, start_json, cands, merged, prev>>
    /\ UNCHANGED <<parserVars, idVars>>

\* main: one iteration of the entry loop on sighting s.
Process(s) ==
    LET c == candidate_of(specs[si], s)
    IN /\ IF c = <<>>
          THEN UNCHANGED <<by_id, cands>> /\ merged' = <<>>
          ELSE /\ by_id' = upsert(by_id, c[1])
               /\ cands' = Append(cands, c[1])
               /\ merged' = IF has_key(by_id, c[1]["id"])
                            THEN << [existing |-> lookup(by_id, c[1]["id"]),
                                     incoming |-> c[1],
                                     out |-> merge_item(lookup(by_id, c[1]["id"]), c[1])] >>
                            ELSE <<>>
       /\ ei' = ei + 1

ProcessEntry ==
    /\ pc = "entries"
    /\ IF replay
       THEN /\ ei <= Len(feed[si].entries)
            /\ Process(feed[si].entries[ei])
            /\ UNCHANGED <<feed, sightings>>
       ELSE /\ feed[si].ok
            /\ sightings < MaxSightings
            /\ Len(feed[si].entries) < MAX_ITEMS_PER_QUERY
            /\ \E s \in Sightings :
                  /\ feed' = [feed EXCEPT ![si].entries = Append(@, s)]
                  /\ Process(s)
            /\ sightings' = sightings + 1
    /\ UNCHANGED <<bundles_md, out_json, now, pc, specs, si, replay, io, runs,
                   events, start_json, prev>>
    /\ UNCHANGED <<parserVars, idVars>>

\* main: the spec's entries are exhausted.
EndFeed ==
    /\ pc = "entries"
    /\ ei > Len(feed[si].entries)
    /\ si' = si + 1
    /\ pc' = IF si + 1 > Len(specs) THEN "retention" ELSE "fetch"
    /\ UNCHANGED <<bundles_md, out_json, now, specs, by_id, ei, feed, replay, io, runs,
                   sightings, events, start_json, cands, merged, prev>>
    /\ UNCHANGED <<parserVars, idVars>>

\* main: retention, order, meta, and the write of data.json.
written_items(d, now_ts) == sort_desc(retain(values(d), cutoff_at(now_ts)))

Finish ==
    /\ pc = "retention"
    /\ out_json' = [state |-> "ok",
                    items |-> written_items(by_id, now),
                    meta |-> meta_of(specs, written_items(by_id, now))]
    /\ io' = [io EXCEPT !.wrote = TRUE]
    /\ pc' = "exit_ok"
    /\ by_id' = <<>>
    /\ cands' = <<>>
    /\ merged' = <<>>
    /\ si' = 0
    /\ ei' = 0
    /\ start_json' = NoFile
    /\ UNCHANGED <<bundles_md, now, specs, feed, replay, runs, events, prev, sightings>>
    /\ UNCHANGED <<parserVars, idVars>>

\* The next run starts: on the reality of the run before it (replay) or on
\* whatever the feeds hold by then.
StartRun(again) ==
    /\ runs < MaxRuns
    /\ runs' = runs + 1
    /\ replay' = again
    /\ prev' = IF again THEN << out_json.items >> ELSE <<>>
    /\ feed' = IF again THEN feed ELSE <<>>
    /\ pc' = "main"
    /\ specs' = <<>>
    /\ by_id' = <<>>
    /\ si' = 0
    /\ ei' = 0
    /\ io' = NoIO
    /\ start_json' = out_json
    /\ cands' = <<>>
    /\ merged' = <<>>
    /\ UNCHANGED <<bundles_md, out_json, now, events, sightings>>
    /\ UNCHANGED <<parserVars, idVars>>

RunAgain ==
    /\ pc = "exit_ok"
    /\ StartRun(TRUE)

RunAnew ==
    /\ pc \in {"exit_ok", "exit_config", "raised", "changed"}
    /\ StartRun(FALSE)

\* Between runs.
Between ==
    /\ pc \in {"exit_ok", "exit_config", "raised", "changed"}
    /\ events < MaxEvents
    /\ events' = events + 1
    /\ pc' = "changed"
    /\ feed' = <<>>
    /\ prev' = <<>>
    /\ replay' = FALSE
    /\ specs' = <<>>
    /\ io' = NoIO
    /\ start_json' = NoFile

AdvanceClock ==
    /\ Between
    /\ now = Now0
    /\ now' = Now1
    /\ UNCHANGED <<bundles_md, out_json, by_id, si, ei, runs, sightings, cands, merged>>
    /\ UNCHANGED <<parserVars, idVars>>

EditConfig ==
    /\ Between
    /\ \E c \in Configs \ {bundles_md} : bundles_md' = c
    /\ UNCHANGED <<out_json, now, by_id, si, ei, runs, sightings, cands, merged>>
    /\ UNCHANGED <<parserVars, idVars>>

\* data.json becomes unreadable.
CorruptCatalog ==
    /\ Between
    /\ out_json.state = "ok"
    /\ out_json' = [out_json EXCEPT !.state = "corrupt"]
    /\ UNCHANGED <<bundles_md, now, by_id, si, ei, runs, sightings, cands, merged>>
    /\ UNCHANGED <<parserVars, idVars>>

\* A persisted item loses a field.
DamageKeys == {"id", "canonical_url", "published_ts"}

DamageItem ==
    /\ Between
    /\ out_json.state = "ok"
    /\ \E i \in 1..Len(out_json.items) :
          \E k \in DamageKeys \cap DOMAIN out_json.items[i] :
             out_json' = [out_json EXCEPT
                 !.items[i] = [x \in DOMAIN out_json.items[i] \ {k} |-> out_json.items[i][x]]]
    /\ UNCHANGED <<bundles_md, now, by_id, si, ei, runs, sightings, cands, merged>>
    /\ UNCHANGED <<parserVars, idVars>>

\* The item holds an id that is a string with more than whitespace in it.
NonBlankId(it) ==
    /\ "id" \in DOMAIN it
    /\ it["id"] \notin {NoneVal, NumberVal}
    /\ strip(it["id"]) # <<>>

\* A persisted item's id becomes a number.
MistypeItem ==
    /\ Between
    /\ out_json.state = "ok"
    /\ \E i \in 1..Len(out_json.items) :
          out_json' = [out_json EXCEPT !.items[i] = set(out_json.items[i], "id", NumberVal)]
    /\ UNCHANGED <<bundles_md, now, by_id, si, ei, runs, sightings, cands, merged>>
    /\ UNCHANGED <<parserVars, idVars>>

Next ==
    \/ Configure
    \/ LoadStore
    \/ FetchFeed
    \/ ProcessEntry
    \/ EndFeed
    \/ Finish
    \/ RunAgain
    \/ RunAnew
    \/ AdvanceClock
    \/ EditConfig
    \/ CorruptCatalog
    \/ DamageItem
    \/ MistypeItem

Spec == Init /\ [][Next]_vars

\* The same runs over catalogs edited by hand as well: a persisted item's id
\* gains a space in front, which the load loop strips for the key only.
PadItem ==
    /\ Between
    /\ out_json.state = "ok"
    /\ \E i \in 1..Len(out_json.items) :
          /\ NonBlankId(out_json.items[i])
          /\ out_json' = [out_json EXCEPT
                 !.items[i] = set(out_json.items[i], "id", <<" ">> \o out_json.items[i]["id"])]
    /\ UNCHANGED <<bundles_md, now, by_id, si, ei, runs, sightings, cands, merged>>
    /\ UNCHANGED <<parserVars, idVars>>

EditedNext == Next \/ PadItem

EditedSpec == Init /\ [][EditedNext]_vars

(***************************************************************************)
(* What the lines of the documents are, read off the lines themselves.     *)
(***************************************************************************)
LineKind(ln) ==
    CASE ln \in {L_header, L_header2} -> "bundle"
      [] ln = L_plus -> "plus"
      [] ln = L_star -> "star"
      [] ln \in {L_bex, L_qex, L_dash, L_empty} -> "minus"
      [] OTHER -> "blank"

\* The exclusion term a "-" line contributes: none for "- -".  The marker
\* is taken off once when the line is read, and once more when a
\* bundle-level term is carried into a query.
LineTerm(ln, level) ==
    CASE ln = L_bex -> << <<"r", "u", "m", "o", "r">> >>
      [] ln = L_qex -> << <<"l", "e", "a", "k">> >>
      [] ln = L_dash -> IF level = "bundle" THEN << <<"x">> >> ELSE << <<"-", "x">> >>
      [] OTHER -> <<>>

LineInclude(ln) ==
    IF ln = L_plus
    THEN <<"a", "p", "p", "l", "e", " ", "v", "i", "s", "i", "o", "n", " ", "p", "r", "o">>
    ELSE <<"a", " ", " ", "b">>

LineBundle(ln) == IF ln = L_header THEN <<"T", "e", "c", "h">> ELSE <<"U">>

RECURSIVE TermsIn(_, _, _, _)
TermsIn(t, lo, hi, level) ==
    IF lo > hi THEN <<>>
    ELSE LineTerm(t[lo], level) \o TermsIn(t, lo + 1, hi, level)

QueryLines(t) == {i \in 1..Len(t) : LineKind(t[i]) \in {"plus", "star"}}
Nth(S, k) == CHOOSE i \in S : Cardinality({j \in S : j < i}) = k - 1
\* The line before the next query line after line i, or the last line.
ScopeEnd(t, i) ==
    LET later == {j \in QueryLines(t) : j > i}
    IN IF later = {} THEN Len(t) ELSE Nth(later, 1) - 1

\* One bundle: its header first, then exclusions, then queries; a "-" line
\* after the first query follows a "+" query.
OneBundleDoc(t) ==
    /\ \E h \in 1..Len(t) :
          /\ LineKind(t[h]) = "bundle"
          /\ \A j \in 1..Len(t) : j # h =>
                /\ LineKind(t[j]) # "bundle"
                /\ j < h => LineKind(t[j]) = "blank"
    /\ QueryLines(t) # {}
    /\ \A j \in 1..Len(t) :
          LineKind(t[j]) = "minus" /\ j > Nth(QueryLines(t), 1) =>
             LineKind(t[Nth({i \in QueryLines(t) : i < j},
                            Cardinality({i \in QueryLines(t) : i < j}))]) = "plus"

\* C6: parsing one bundle with bundle-level exclusions before its first query
\* and then several queries gives one QuerySpec per query, each with those
\* bundle-level exclusions as bundle_exclude, and each with exactly the
\* exclusions that follow its own query line as query_exclude.
C6_ParserScoping ==
    (ppc = "parsed" /\ OneBundleDoc(text)) =>
        LET Q == QueryLines(text)
            first == Nth(Q, 1)
            h == CHOOSE i \in 1..Len(text) : LineKind(text[i]) = "bundle"
        IN /\ Len(parsed) = Cardinality(Q)
           /\ \A k \in 1..Len(parsed) :
                 /\ parsed[k].bundle = LineBundle(text[h])
                 /\ parsed[k].include = LineInclude(text[Nth(Q, k)])
                 /\ parsed[k].bundle_exclude = TermsIn(text, 1, first - 1, "bundle")
                 /\ parsed[k].query_exclude =
                       TermsIn(text, Nth(Q, k) + 1, ScopeEnd(text, Nth(Q, k)), "query")

C6_Witness ==
    /\ ppc = "parsed"
    /\ text = <<L_header, L_bex, L_plus, L_qex, L_star>>
    /\ Len(parsed) = 2
    /\ parsed[1].bundle_exclude = LineTerm(L_bex, "bundle")
    /\ parsed[2].bundle_exclude = LineTerm(L_bex, "bundle")
    /\ parsed[1].query_exclude = LineTerm(L_qex, "query")
    /\ parsed[2].query_exclude = <<>>

\* A stored exclusion term without the negation marker it may carry.
Unmarked(t) == IF t # <<>> /\ Head(t) = "-" THEN Tail(t) ELSE t

RECURSIVE NegatedTerms(_)
NegatedTerms(terms) ==
    IF terms = <<>> THEN <<>>
    ELSE <<" ", "-">> \o Unmarked(Head(terms)) \o NegatedTerms(Tail(terms))

TechQuery ==
    <<"a", "p", "p", "l", "e", " ", "v", "i", "s", "i", "o", "n", " ", "p", "r", "o",
      " ", "-", "r", "u", "m", "o", "r", " ", "-", "l", "e", "a", "k">>

\* C7: the compiled query is the include followed by every exclusion term,
\* bundle-level terms first, then query-level terms, each group in its order,
\* each term behind exactly one "-" (a term stored with the marker gets no
\* second one); the Tech document gives one QuerySpec and compiles to
\* "apple vision pro -rumor -leak".
C7_CompiledQuery ==
    /\ \A k \in 1..Len(compiled) :
          compiled[k] = parsed[k].include
             \o NegatedTerms(parsed[k].bundle_exclude \o parsed[k].query_exclude)
    /\ (ppc = "parsed" /\ text = TechDoc) =>
          /\ parsed = << QuerySpec(LineBundle(L_header), LineInclude(L_plus),
                                   LineTerm(L_bex, "bundle"), LineTerm(L_qex, "query")) >>
          /\ compiled # <<>> => compiled = << TechQuery >>

C7_Witness ==
    /\ text = TechDoc
    /\ compiled = << TechQuery >>

\* C5: for a given non-empty canonical URL, stable_id_for_item returns the
\* same id whatever the other fields are: a step that changes url, guid,
\* title, source or published_ts of an item and leaves its non-empty
\* canonical URL alone leaves the id what it was.
C5_IdentityStability ==
    [][(/\ item_id # NoneVal
        /\ safe_str(item["canonical_url"]) # <<>>
        /\ item'["canonical_url"] = item["canonical_url"])
       => item_id' = item_id]_vars

C5_Witness ==
    /\ changes = MaxChanges
    /\ safe_str(item["canonical_url"]) # <<>>
    /\ item["url"] = <<>>
    /\ item["guid"] = <<>>
    /\ item_id = stable_id_for_item(item)

InRun == pc \in {"fetch", "entries", "retention"}

\* C1: folding the whole candidate sequence of a run into the store twice
\* (insert when the id is absent, merge_item when present) gives the store
\* that folding it once gives, whatever store the run loaded.
C1_FoldIdempotent ==
    InRun =>
        /\ by_id = fold(load_all(<<>>, load_existing_items(out_json)), cands)
        /\ fold(by_id, cands) = by_id

C1_Witness ==
    /\ pc = "retention"
    /\ Len(cands) = 2
    /\ cands[1]["id"] = cands[2]["id"]
    /\ cands[1] # cands[2]
    /\ Len(by_id) = 1
    /\ by_id[1].item # cands[1]

NonBlank(it, k) == safe_str(get(it, k)) # <<>>

OnePerCanonical(its) ==
    \A i, j \in 1..Len(its) :
        (i # j /\ NonBlank(its[i], "canonical_url")) =>
            get(its[i], "canonical_url") # get(its[j], "canonical_url")

\* C2: sightings of an article at different aggregator URLs that canonicalize
\* to the same publisher URL are one stored item: every candidate with a
\* canonical URL is held under its id by the one item of that canonical URL,
\* and neither the store nor a written catalog holds two items for one
\* canonical URL.
C2_OneItemPerCanonical ==
    /\ OnePerCanonical(values(by_id))
    /\ OnePerCanonical(out_json.items)
    /\ \A c \in 1..Len(cands) :
          NonBlank(cands[c], "canonical_url") =>
             /\ has_key(by_id, cands[c]["id"])
             /\ get(lookup(by_id, cands[c]["id"]), "id") = cands[c]["id"]
             /\ get(lookup(by_id, cands[c]["id"]), "canonical_url")
                   = cands[c]["canonical_url"]

C2_Witness ==
    /\ Len(cands) = 2
    /\ cands[1]["url"] = g1
    /\ cands[2]["url"] = g2
    /\ cands[1]["canonical_url"] = pub
    /\ cands[2]["canonical_url"] = pub
    /\ Len(by_id) = 1
    /\ by_id[1].item["url"] = g1
    /\ by_id[1].item["guid"] = cands[2]["guid"]

\* C3: in the record merge_item returns, each of title, source, bundle,
\* query, url, canonical_url and guid is existing's value when that value is
\* not blank, and the candidate's value otherwise (blank when the candidate's
\* is blank too); a populated existing value is never replaced.
C3_FillIfBlank ==
    \A m \in 1..Len(merged) :
        \A k \in {"title", "source", "bundle", "query", "url", "canonical_url", "guid"} :
            IF NonBlank(merged[m].existing, k)
            THEN get(merged[m].out, k) = get(merged[m].existing, k)
            ELSE IF NonBlank(merged[m].incoming, k)
                 THEN get(merged[m].out, k) = get(merged[m].incoming, k)
                 ELSE ~NonBlank(merged[m].out, k)

C3_Witness ==
    /\ merged # <<>>
    /\ NonBlank(merged[1].existing, "title")
    /\ NonBlank(merged[1].incoming, "title")
    /\ get(merged[1].existing, "title") # get(merged[1].incoming, "title")
    /\ ~NonBlank(merged[1].existing, "guid")
    /\ NonBlank(merged[1].incoming, "guid")
    /\ get(merged[1].out, "guid") = get(merged[1].incoming, "guid")

Written(its, it) == \E i \in 1..Len(its) : its[i] = it

\* C4: the catalog a run writes holds an item of the store exactly when its
\* published_ts is not 0 and not below now - RETENTION_DAYS*86400: at the
\* cutoff it is kept, one second below it is dropped, undated it is dropped.
C4_RetentionBoundary ==
    [][(pc = "retention" /\ pc' = "exit_ok") =>
         /\ \A i \in 1..Len(by_id) :
               Written(out_json'.items, by_id[i].item) <=>
                  /\ ts_of(by_id[i].item) # 0
                  /\ ts_of(by_id[i].item) >= now - (RETENTION_DAYS * 86400)
         /\ \A i \in 1..Len(out_json'.items) :
               /\ Written(values(by_id), out_json'.items[i])
               /\ ts_of(out_json'.items[i]) # 0
               /\ ts_of(out_json'.items[i]) > now - (RETENTION_DAYS * 86400) - 1]_vars

\* A run whose feed held a dated entry at the cutoff and an undated entry of
\* another id has written the first alone.
C4_Witness ==
    /\ pc = "exit_ok"
    /\ Len(out_json.items) = 1
    /\ ts_of(out_json.items[1]) = now - (RETENTION_DAYS * 86400)
    /\ \E f \in 1..Len(feed) : \E i \in 1..Len(feed[f].entries) :
          LET c == candidate_of(specs[f], feed[f].entries[i])
          IN /\ c # <<>>
             /\ ts_of(c[1]) = 0
             /\ c[1]["id"] # out_json.items[1]["id"]

ConfigBad == ~bundles_md.exists \/ parse_bundles_md(bundles_md.lines) = <<>>

\* C8: with bundles.md missing or without a query the run ends as a
\* configuration error and nowhere else, no feed has been fetched and no GET
\* sent, data.json has been neither read nor written, and it is the file it
\* was when the run started.
C8_ConfigAbort ==
    /\ ConfigBad => pc \in {"main", "exit_config", "changed"}
    /\ pc = "exit_config" => ConfigBad
    /\ (ConfigBad /\ pc \in {"main", "exit_config"}) =>
          /\ io = NoIO
          /\ out_json = start_json
          /\ by_id = <<>>
          /\ feed = <<>>

C8_Witness ==
    /\ pc = "exit_config"
    /\ bundles_md.exists
    /\ out_json.state = "ok"
    /\ out_json.items # <<>>

\* C10: a run over the reality of the run before it (the same bundles.md, the
\* same feed entries, the same GET outcomes, the same clock) writes the item
\* sequence that run wrote.
C10_SecondRunSame ==
    (pc = "exit_ok" /\ replay) => out_json.items = prev[1]

\* C9: a run ends in a configuration error only when bundles.md is missing
\* or holds no query, and in no other failure: with a query it ends with
\* data.json written, whatever catalog it found.
C9_OnlyConfigFails ==
    /\ pc = "exit_config" => ConfigBad
    /\ pc # "raised"

HeldUnder(d, key, id) ==
    \E j \in 1..Len(d) : d[j].key = key /\ get(d[j].item, "id") = id

\* C11: an item keeps the id it has: an entry merged or inserted leaves the
\* key and the id of every item of the store as they were, also when it
\* brings a canonical URL the stored item lacks; loading holds every
\* persisted item of a non-empty id under that id; and the catalog is written
\* with the ids of the store.
C11_IdAssignedOnce ==
    [][/\ (pc = "entries" /\ pc' = "entries") =>
             /\ Len(by_id') >= Len(by_id)
             /\ \A i \in 1..Len(by_id) :
                   /\ by_id'[i].key = by_id[i].key
                   /\ get(by_id'[i].item, "id") = get(by_id[i].item, "id")
       /\ (pc = "load" /\ pc' = "fetch") =>
             LET its == load_existing_items(out_json)
             IN \A i \in 1..Len(its) :
                   NonBlank(its[i], "id") =>
                      HeldUnder(by_id', its[i]["id"], its[i]["id"])
       /\ (pc = "retention" /\ pc' = "exit_ok") =>
             \A i \in 1..Len(out_json'.items) :
                HeldUnder(by_id, out_json'.items[i]["id"], out_json'.items[i]["id"])
      ]_vars

\* A loaded item that had lost its canonical URL has been merged with a
\* sighting that brings it, and has the id it was loaded with.
C11_Witness ==
    /\ pc = "entries"
    /\ merged # <<>>
    /\ ~NonBlank(merged[1].existing, "canonical_url")
    /\ NonBlank(merged[1].incoming, "canonical_url")
    /\ NonBlank(merged[1].existing, "url")
    /\ HeldUnder(by_id, merged[1].existing["id"], merged[1].existing["id"])
    /\ \E i \in 1..Len(out_json.items) :
          out_json.items[i]["id"] = merged[1].existing["id"]

\* C12: merge_item takes the candidate's published_ts only when existing's
\* is 0 and the candidate's is not; otherwise existing's stays.  So an entry
\* processed leaves every non-zero published_ts of the store as it was.
C12_TimestampPolicy ==
    [][/\ \A m \in 1..Len(merged') :
             ts_of(merged'[m].out) =
                IF ts_of(merged'[m].existing) = 0 /\ ts_of(merged'[m].incoming) # 0
                THEN ts_of(merged'[m].incoming)
                ELSE ts_of(merged'[m].existing)
       /\ (pc = "entries" /\ pc' = "entries") =>
             \A i \in 1..Len(by_id) :
                ts_of(by_id[i].item) # 0 =>
                   ts_of(by_id'[i].item) = ts_of(by_id[i].item)
      ]_vars

C12_Witness ==
    /\ merged # <<>>
    /\ ts_of(merged[1].existing) # 0
    /\ ts_of(merged[1].incoming) # 0
    /\ ts_of(merged[1].incoming) # ts_of(merged[1].existing)
    /\ ts_of(lookup(by_id, merged[1].existing["id"])) = ts_of(merged[1].existing)

C14_UpgradeInPlace ==
    /\ \A c \in 1..Len(cands) :
          NonBlank(cands[c], "canonical_url") =>
             \A i \in 1..Len(by_id) :
                get(by_id[i].item, "url") = cands[c]["url"] =>
                   get(by_id[i].item, "canonical_url") = cands[c]["canonical_url"]
    /\ \A i, j \in 1..Len(by_id) :
          (i # j /\ NonBlank(by_id[i].item, "url")) =>
             get(by_id[i].item, "url") # get(by_id[j].item, "url")

\* C15: all QuerySpecs the parser returns for one bundle name carry the same
\* bundle_exclude list.
C15_SameBundleExclude ==
    ppc = "parsed" =>
        \A i, j \in 1..Len(parsed) :
            parsed[i].bundle = parsed[j].bundle =>
                parsed[i].bundle_exclude = parsed[j].bundle_exclude

NoTermTwice(terms) ==
    \A i, j \in 1..Len(terms) : i # j => terms[i] # terms[j]

\* C16: the bundle_exclude list of every QuerySpec the parser returns holds no
\* term twice.
C16_BundleExcludeDeduplicated ==
    ppc = "parsed" =>
        \A k \in 1..Len(parsed) : NoTermTwice(parsed[k].bundle_exclude)

Max(S) == CHOOSE x \in S : \A y \in S : y <= x

\* The last header before line j, or 0.
HeaderOf(t, j) ==
    LET hs == {h \in 1..(j - 1) : LineKind(t[h]) = "bundle"}
    IN IF hs = {} THEN 0 ELSE Max(hs)

\* The include lines that have a header before them.
Includes(t) == {q \in QueryLines(t) : HeaderOf(t, q) # 0}

\* What a "-" line is: nothing before the first header, query-level when the
\* last include line since the header is a "+", bundle-level otherwise.
MinusLevel(t, j) ==
    LET h == HeaderOf(t, j)
        qs == {q \in QueryLines(t) : h < q /\ q < j}
    IN IF h = 0 THEN "none"
       ELSE IF qs # {} /\ LineKind(t[Max(qs)]) = "plus" THEN "query"
       ELSE "bundle"

RECURSIVE LevelTerms(_, _, _, _)
LevelTerms(t, lo, hi, level) ==
    IF lo > hi THEN <<>>
    ELSE (IF LineKind(t[lo]) = "minus" /\ MinusLevel(t, lo) = level
          THEN LineTerm(t[lo], level) ELSE <<>>)
         \o LevelTerms(t, lo + 1, hi, level)

\* The line before the next include line or header after line q, or the last.
BoundaryAfter(t, q) ==
    LET later == {j \in (q + 1)..Len(t) : LineKind(t[j]) \in {"plus", "star", "bundle"}}
    IN IF later = {} THEN Len(t) ELSE Nth(later, 1) - 1

\* C17: the parser returns exactly one QuerySpec for each include line that
\* has a header before it, in document order, with the name of the last
\* header before it, the bundle-wide exclusions read since that header and
\* the exclusions that follow its own "+" line; lines before the first header
\* give no QuerySpec and no exclusion.
C17_ParserFlushing ==
    ppc = "parsed" =>
        /\ Len(parsed) = Cardinality(Includes(text))
        /\ \A k \in 1..Len(parsed) :
              LET q == Nth(Includes(text), k)
                  h == HeaderOf(text, q)
              IN /\ parsed[k].bundle = LineBundle(text[h])
                 /\ parsed[k].include = LineInclude(text[q])
                 /\ parsed[k].bundle_exclude = LevelTerms(text, h + 1, q - 1, "bundle")
                 /\ parsed[k].query_exclude =
                       LevelTerms(text, q + 1, BoundaryAfter(text, q), "query")

C17_Witness ==
    /\ ppc = "parsed"
    /\ text = <<L_bex, L_header, L_plus, L_header2, L_plus>>
    /\ Len(parsed) = 2
    /\ parsed[1].bundle = LineBundle(L_header)
    /\ parsed[2].bundle = LineBundle(L_header2)
    /\ parsed[1].bundle_exclude = <<>>

Collapsed(q) ==
    /\ q # <<>> => ~isspace(q[1]) /\ ~isspace(q[Len(q)])
    /\ \A i \in 1..(Len(q) - 1) : ~(isspace(q[i]) /\ isspace(q[i + 1]))

\* C18: every compiled query has no whitespace at its start or end and no two
\* whitespace characters in a row.
C18_QueryCollapsed ==
    \A k \in 1..Len(compiled) : Collapsed(compiled[k])

\* Where the first item of id k stands in a list of items.
\* The key the load loop holds a persisted item under.
loaded_key(it) ==
    IF safe_str(get(it, "id")) = <<>> THEN stable_id_for_item(it)
    ELSE safe_str(get(it, "id"))

FirstAt(its, k) ==
    CHOOSE i \in 1..Len(its) :
        /\ loaded_key(its[i]) = k
        /\ \A j \in 1..(i - 1) : loaded_key(its[j]) # k

\* C19: the items written are in descending published_ts, and two of the same
\* published_ts stand as they stood in the store; the store holds the loaded
\* items in file order, and a processed entry leaves the held items in place,
\* a new one going last.
C19_WrittenOrder ==
    [][ /\ (pc = "retention" /\ pc' = "exit_ok") =>
              LET its == out_json'.items
              IN \A i, j \in 1..Len(its) :
                    i < j =>
                       /\ ts_of(its[i]) >= ts_of(its[j])
                       /\ ts_of(its[i]) = ts_of(its[j]) =>
                             index_of(by_id, its[i]["id"]) < index_of(by_id, its[j]["id"])
        /\ (pc = "entries" /\ pc' = "entries") =>
              \A i \in 1..Len(by_id) :
                  i <= Len(by_id') /\ by_id'[i].key = by_id[i].key
        /\ (pc = "load" /\ pc' = "fetch") =>
              LET its == load_existing_items(out_json)
              IN \A i, j \in 1..Len(by_id') :
                    i < j => FirstAt(its, by_id'[i].key) < FirstAt(its, by_id'[j].key)
      ]_vars

\* A written catalog with two items of one published_ts and different ids.
C19_Witness ==
    /\ pc = "exit_ok"
    /\ \E i, j \in 1..Len(out_json.items) :
          /\ i < j
          /\ ts_of(out_json.items[i]) = ts_of(out_json.items[j])
          /\ out_json.items[i]["id"] # out_json.items[j]["id"]

\* C20: at every point of a run each item of the store is held under its own
\* id, which is not empty, and a written catalog holds no id twice and no
\* empty id.
C20_KeyIsOwnId ==
    /\ \A j \in 1..Len(by_id) :
          /\ by_id[j].key # <<>>
          /\ get(by_id[j].item, "id") = by_id[j].key
    /\ pc = "exit_ok" =>
          /\ \A i \in 1..Len(out_json.items) : get(out_json.items[i], "id") \notin {<<>>, NoneVal}
          /\ \A i, j \in 1..Len(out_json.items) :
                i # j => get(out_json.items[i], "id") # get(out_json.items[j], "id")

====
